---- MODULE Spec2Model ----
(***************************************************************************)
(* Model of convert.py: the conversion of a saved container image archive  *)
(* into its "lazy" variant.  Image.convert is a linear pipeline            *)
(*   _untar, _loadManifest, _unpackLayers, _assembleLayers,                *)
(*   _writeConfigs, _assembleTarget                                        *)
(* over four workspace directories (orig, temp, lazy, pool).               *)
(*                                                                         *)
(* Text is modelled as a sequence of pieces (<<"app", ":", "1.0">> is the  *)
(* string "app:1.0"); concatenation is \o.  A path is a sequence of path   *)
(* components.  sha256 is modelled as a collision-free digest.             *)
(***************************************************************************)
EXTENDS Integers, Sequences, FiniteSets, TLC

VARIABLES
    pc,              \* position of Image.convert in its pipeline
    err,             \* the exception that ended the run, if any
    srcTar,          \* contents of the source tarball (the input image)
    srcDir,          \* <name>-orig : extracted source archive
    tmpDir,          \* <name>-temp : id -> unpacked layer tree, metadata.json
    dstDir,          \* <name>-lazy : destination root
    pool,            \* <name>-pool : blob file name -> blob content
    dstTar,          \* <name>-lazy.tar
    tarLog,          \* the invocations of the archive tool, in order
    manifest,        \* self._manifest
    repositories,    \* self._repositories
    config,          \* self._config
    layers,          \* self._layers         (sequence of Layer)
    unpackedLayers   \* self._unpackedLayers (sequence of UnpackedLayer)

vars == <<pc, err, srcTar, srcDir, tmpDir, dstDir, pool, dstTar, tarLog,
          manifest, repositories, config, layers, unpackedLayers>>

-----------------------------------------------------------------------------
(* Bounds of the model *)

MaxLayers == 2
MaxTags == 2
MaxEntries == 2

-----------------------------------------------------------------------------
(* Text, digests, serialisation *)

Colon == <<":">>
LazySuffix == <<"-lazy">>
Sha256Prefix == <<"sha256:">>

\* sha256 of a byte string, as the hex text used for file names
Sha256Hex(bytes) == [sha256 |-> bytes]

\* sha256sum(path): digest of the file's content; the empty text when the
\* file cannot be read (sha256sum prints nothing on stdout)
sha256sum(file) == IF file.exists THEN <<Sha256Hex(file.content)>> ELSE <<>>

\* json.dumps(value, separators=jsonSep) / json.dump(value, fp, ...)
JsonDumps(value) == <<[json |-> value]>>

Newline == <<"\n">>

RECURSIVE SplitFrom(_, _, _)
\* str.split(':') : the fields between the separators, left to right
SplitFrom(s, i, field) ==
    IF i > Len(s) THEN <<field>>
    ELSE IF <<s[i]>> = Colon THEN <<field>> \o SplitFrom(s, i + 1, <<>>)
    ELSE SplitFrom(s, i + 1, Append(field, s[i]))

Split(s) == SplitFrom(s, 1, <<>>)

\* ':'.join([a, b])
Join(a, b) == a \o Colon \o b

-----------------------------------------------------------------------------
(* File system entries of a layer tree: path -> lstat result and content *)

S_IFDIR_755 == 16877
S_IFREG_644 == 33188
S_IFLNK_777 == 41471
S_IFMT_SHIFT == 4096
S_IFLNK_TYPE == 10

\* stat.S_ISLNK(mode)
S_ISLNK(mode) == (mode \div S_IFMT_SHIFT) = S_IFLNK_TYPE

DirEnt == [kind |-> "dir", mode |-> S_IFDIR_755, size |-> 4096, data |-> "", tkind |-> "none"]
FileEnt(content, size) ==
    [kind |-> "file", mode |-> S_IFREG_644, size |-> size, data |-> content, tkind |-> "none"]
\* tkind: what the link target resolves to ("file", "dir" or "missing")
LinkEnt(target, size, tkind) ==
    [kind |-> "symlink", mode |-> S_IFLNK_777, size |-> size, data |-> target, tkind |-> tkind]

EmptyTree == (<<>> :> DirEnt)

\* a.txt = "hello", b.txt = "hello", c -> a.txt
TreeA == (<<>> :> DirEnt) @@ (<<"a.txt">> :> FileEnt("hello", 5))
         @@ (<<"b.txt">> :> FileEnt("hello", 5))
         @@ (<<"c">> :> LinkEnt("a.txt", 5, "file"))

\* sub/x = "hello", y = "world", d -> sub (a directory), e -> gone (missing)
TreeB == (<<>> :> DirEnt) @@ (<<"sub">> :> DirEnt)
         @@ (<<"sub", "x">> :> FileEnt("hello", 5))
         @@ (<<"y">> :> FileEnt("world", 5))
         @@ (<<"d">> :> LinkEnt("sub", 3, "dir"))
         @@ (<<"e">> :> LinkEnt("gone", 4, "missing"))

TreeFixtures == {EmptyTree, TreeA, TreeB}

\* what a failed extraction may leave behind: the entries down to some depth
Truncate(tree, depth) == [p \in {q \in DOMAIN tree : Len(q) <= depth} |-> tree[p]]

-----------------------------------------------------------------------------
(* mkdir and the directories of the workspace *)

\* A directory of the workspace: kind is "absent", "dir" or "file" (a path
\* that exists but is no directory); files is what it holds.
AbsentDir(empty) == [kind |-> "absent", files |-> empty]

\* mkdir that removes and recreates whatever exists
MkdirAlways(d, skipIfExist, empty) ==
    IF d.kind = "file"
    THEN [dir |-> d, ret |-> FALSE, raised |-> TRUE]
    ELSE [dir |-> [kind |-> "dir", files |-> empty], ret |-> TRUE, raised |-> FALSE]

\* mkdir(path, skipIfExist): ret is the returned value, raised says that
\* shutil.rmtree raised (the path is a file, not a directory)
Mkdir(d, skipIfExist, empty) ==
    IF d.kind # "absent"
    THEN IF skipIfExist /\ d.kind = "dir"
         THEN [dir |-> d, ret |-> FALSE, raised |-> FALSE]
         ELSE IF d.kind = "file"
         THEN [dir |-> d, ret |-> FALSE, raised |-> TRUE]
         ELSE [dir |-> [kind |-> "dir", files |-> empty], ret |-> TRUE, raised |-> FALSE]
    ELSE [dir |-> [kind |-> "dir", files |-> empty], ret |-> TRUE, raised |-> FALSE]

\* Layer.__init__ / UnpackedLayer.__init__ : the id is the name of the
\* directory that holds the path
LayerId(path) == path[Len(path) - 1]

Layer(path) == [src |-> path, id |-> LayerId(path)]
UnpackedLayer(path) == [src |-> path, id |-> LayerId(path)]

\* relPath(root)(*subpaths)
RelPath(root, subpath) == <<root>> \o subpath

-----------------------------------------------------------------------------
(* UnpackedLayer.convert : os.walk over the unpacked tree *)

Children(tree, parent) ==
    {q \in DOMAIN tree : Len(q) = Len(parent) + 1 /\ SubSeq(q, 1, Len(parent)) = parent}

\* os.walk sorts an entry into dirs when DirEntry.is_dir() holds, which
\* follows symlinks: a symlink to a directory is listed in dirs
IsDirEntry(tree, q) ==
    \/ tree[q].kind = "dir"
    \/ tree[q].kind = "symlink" /\ tree[q].tkind = "dir"

WalkDirs(tree, parent) == {q \in Children(tree, parent) : IsDirEntry(tree, q)}
WalkFiles(tree, parent) == {q \in Children(tree, parent) : ~IsDirEntry(tree, q)}

RECURSIVE Walk(_, _)
\* the directories os.walk yields as parent: followlinks is False, so a
\* symlink listed in dirs is not descended into
Walk(tree, top) ==
    {top} \cup UNION {Walk(tree, d) : d \in {q \in WalkDirs(tree, top) : tree[q].kind # "symlink"}}

\* the entry convert builds for a name of files
FileEntry(tree, path) ==
    LET s == tree[path]
    IN  IF S_ISLNK(s.mode)
        THEN [mode |-> s.mode, size |-> s.size, link |-> s.data]
        ELSE [mode |-> s.mode, size |-> s.size, sha256 |-> Sha256Hex(s.data)]

RECURSIVE DirEntry(_, _)
\* the entry convert builds for the root and for a name of dirs, with the
\* dirents the walk fills in when it comes to that directory
DirEntry(tree, path) ==
    [mode |-> tree[path].mode,
     dirents |->
        IF path \in Walk(tree, <<>>)
        THEN [n \in {q[Len(q)] : q \in Children(tree, path)} |->
                 LET q == Append(path, n)
                 IN  IF IsDirEntry(tree, q) THEN DirEntry(tree, q) ELSE FileEntry(tree, q)]
        ELSE <<>>]

\* the files whose content convert digests and offers to the pool
PooledFiles(tree) ==
    {q \in UNION {WalkFiles(tree, parent) : parent \in Walk(tree, <<>>)} :
        ~S_ISLNK(tree[q].mode)}

\* the copy made whether or not the blob exists
PoolInsertAlways(blobs, checksum, content) ==
    [n \in DOMAIN blobs \cup {checksum} |-> IF n = checksum THEN content ELSE blobs[n]]

\* the copy made only when the blob exists
PoolInsertInverted(blobs, checksum, content) ==
    IF checksum \in DOMAIN blobs
    THEN [n \in DOMAIN blobs |-> IF n = checksum THEN content ELSE blobs[n]]
    ELSE blobs

\* target = os.path.join(pool, checksum);
\* if not os.path.exists(target): shutil.copyfile(path, target)
PoolInsert(blobs, checksum, content) ==
    IF checksum \in DOMAIN blobs THEN blobs ELSE blobs @@ (checksum :> content)

RECURSIVE PoolInsertAll(_, _, _)
PoolInsertAll(blobs, tree, todo) ==
    IF todo = {} THEN blobs
    ELSE LET q == CHOOSE x \in todo : TRUE
         IN  PoolInsertAll(PoolInsert(blobs, Sha256Hex(tree[q].data), tree[q].data),
                           tree, todo \ {q})

\* convert(metadata, pool): the document written to metadata and the pool
ConvertDoc(tree) == JsonDumps(DirEntry(tree, <<>>))
ConvertPool(blobs, tree) == PoolInsertAll(blobs, tree, PooledFiles(tree))

\* tar -cf <dst>/<id>/layer.tar -C <src> . : members are named ./<path>
Pack(tree) == [exists |-> TRUE, content |-> [prefix |-> "./", tree |-> tree]]
\* a layer archive as found in a saved image
SavedLayer(tree) == [exists |-> TRUE, content |-> [prefix |-> "", tree |-> tree]]

-----------------------------------------------------------------------------
(* The inputs: saved images and workspaces *)

AllLayerIds == <<"l1", "l2", "l3", "l4">>
LayerIds == {AllLayerIds[i] : i \in 1..MaxLayers}

\* sequences over S of length at most n
RECURSIVE SeqsUpTo(_, _)
SeqsUpTo(S, n) ==
    IF n = 0 THEN {<<>>}
    ELSE SeqsUpTo(S, n - 1) \cup {Append(q, x) : q \in SeqsUpTo(S, n - 1), x \in S} 

Range(q) == {q[i] : i \in 1..Len(q)}

TagPlain == <<"app", ":", "1.0">>
TagLazy == <<"app", ":", "1.0", "-lazy">>
TagTwo == <<"app", ":", "2.0">>
TagPort == <<"reg", ":", "5000/app", ":", "1.0">>
TagBare == <<"app">>
Tags == {TagPlain, TagLazy, TagTwo, TagPort, TagBare}

IndexFull ==
    (<<"app">> :> ((<<"1.0">> :> "id1") @@ (<<"1.0", "-lazy">> :> "id2") @@ (<<"2.0">> :> "id3")))
    @@ (<<"reg">> :> (<<"5000/app", ":", "1.0">> :> "id4"))
IndexTwo ==
    (<<"app">> :> ((<<"1.0">> :> "id1") @@ (<<"2.0">> :> "id3")))
    @@ (<<"reg">> :> (<<"5000/app", ":", "1.0">> :> "id4"))
IndexOne == (<<"app">> :> (<<"1.0">> :> "id1"))
Indexes == {IndexFull, IndexTwo, IndexOne}

LayerPath(id) == <<id, "layer.tar">>

SourceConfig(ids, treeOf) ==
    [architecture |-> "amd64",
     rootfs |-> [type |-> "layers",
                 diff_ids |-> [i \in 1..Len(ids) |->
                                  Sha256Prefix \o sha256sum(SavedLayer(treeOf[ids[i]]))]]]

ConfigName(cfg) == <<Sha256Hex(JsonDumps(cfg)), ".json">>

OtherEntry == [Config |-> <<"other", ".json">>, RepoTags |-> <<>>, Layers |-> <<>>]

AllFiles == {"manifest.json", "repositories", "config"}

\* the contents of a saved image: manifest.json with n entries, repositories,
\* the config document and <id>/layer.tar, <id>/VERSION, <id>/json per layer
Image(n, tags, index, ids, treeOf) ==
    LET cfg == SourceConfig(ids, treeOf)
        entry == [Config |-> ConfigName(cfg), RepoTags |-> tags,
                  Layers |-> [i \in 1..Len(ids) |-> LayerPath(ids[i])]]
    IN  [has |-> AllFiles,
         manifest |-> [i \in 1..n |-> IF i = 1 THEN entry ELSE OtherEntry],
         repositories |-> index,
         configs |-> (ConfigName(cfg) :> cfg),
         layers |-> [id \in Range(ids) |->
                        [tar |-> SavedLayer(treeOf[id]), VERSION |-> "1.0", json |-> id]]]

NoFiles(img) == [img EXCEPT !.has = {}]
PartialImages(img) == {[img EXCEPT !.has = h] : h \in {{}, {"manifest.json"}}}

EmptyDst == [has |-> {}, layers |-> <<>>, configs |-> <<>>,
             repositories |-> <<>>, manifest |-> <<>>]
StaleDst == [has |-> {"repositories", "manifest.json"}, layers |-> <<>>, configs |-> <<>>,
             repositories |-> <<"stale">>, manifest |-> <<"stale">>]
StaleTmp == ("l1" :> [layer |-> TreeB, metadata |-> <<"stale">>])

GoodPool == (Sha256Hex("hello") :> "hello")
BadPool == (Sha256Hex("hello") :> "damaged") @@ (Sha256Hex("older") :> "older")

Dir(files) == [kind |-> "dir", files |-> files]

\* the workspaces a run may start in
Workspaces(img) ==
    { [src |-> AbsentDir(NoFiles(img)), tmp |-> AbsentDir(<<>>),
       dst |-> AbsentDir(EmptyDst), pool |-> AbsentDir(<<>>)],
      [src |-> Dir(img), tmp |-> Dir(StaleTmp), dst |-> Dir(StaleDst), pool |-> Dir(GoodPool)],
      [src |-> Dir(NoFiles(img)), tmp |-> AbsentDir(<<>>),
       dst |-> AbsentDir(EmptyDst), pool |-> AbsentDir(<<>>)],
      [src |-> [kind |-> "file", files |-> NoFiles(img)], tmp |-> AbsentDir(<<>>),
       dst |-> AbsentDir(EmptyDst), pool |-> AbsentDir(<<>>)],
      [src |-> AbsentDir(NoFiles(img)), tmp |-> AbsentDir(<<>>),
       dst |-> Dir(StaleDst), pool |-> Dir(BadPool)] }

DefaultTrees == [id \in LayerIds |-> TreeA]

DefaultIndex == IndexFull

\* the images a run is given: every list of layers and trees with one tag,
\* every tag list and index with one layer, and every number of manifest
\* entries with one layer and one tag
Images ==
    {Image(1, <<TagPlain>>, DefaultIndex, ids, treeOf) :
        ids \in SeqsUpTo(LayerIds, MaxLayers), treeOf \in [LayerIds -> TreeFixtures]}
    \cup
    {Image(1, tags, index, <<"l1">>, DefaultTrees) :
        tags \in SeqsUpTo(Tags, MaxTags), index \in Indexes}
    \cup
    {Image(n, <<TagPlain>>, DefaultIndex, <<"l1">>, DefaultTrees) : n \in 0..MaxEntries}

NoError == [step |-> "none", type |-> "none"]
Raise(step, type) == [step |-> step, type |-> type]

Init ==
    /\ pc = "start"
    /\ err = NoError
    /\ srcTar \in Images
    /\ \E w \in Workspaces(srcTar) :
          /\ srcDir = w.src
          /\ tmpDir = w.tmp
          /\ dstDir = w.dst
          /\ pool = w.pool
    /\ dstTar = [exists |-> FALSE, content |-> EmptyDst]
    /\ tarLog = <<>>
    /\ manifest = <<>>
    /\ repositories = <<>>
    /\ config = <<>>
    /\ layers = <<>>
    /\ unpackedLayers = <<>>

-----------------------------------------------------------------------------
(* Image._untar *)

TarExitCodes == {0, 2}

Untar ==
    /\ pc = "start"
    /\ LET m == Mkdir(srcDir, TRUE, NoFiles(srcTar))
       IN  IF m.raised
           THEN /\ pc' = "failed"
                /\ err' = Raise("_untar", "NotADirectoryError")
                /\ UNCHANGED <<srcDir, tarLog>>
           ELSE IF ~m.ret
           THEN \* the directory already exists: skipping untar
                /\ pc' = "extracted"
                /\ UNCHANGED <<err, srcDir, tarLog>>
           ELSE \E code \in TarExitCodes :
                  /\ \E files \in (IF code = 0 THEN {srcTar} ELSE PartialImages(srcTar)) :
                        srcDir' = Dir(files)
                  /\ tarLog' = Append(tarLog, [op |-> "x", archive |-> <<"srcTar">>,
                                               dir |-> <<"orig">>, code |-> code])
                  \* a non-zero exit code is logged and the run goes on
                  /\ pc' = "extracted"
                  /\ err' = err
    /\ UNCHANGED <<srcTar, tmpDir, dstDir, pool, dstTar, manifest, repositories,
                   config, layers, unpackedLayers>>

-----------------------------------------------------------------------------
(* Image._loadManifest *)

LoadManifest ==
    /\ pc = "extracted"
    /\ LET files == srcDir.files
       IN  IF "manifest.json" \notin files.has
           THEN /\ pc' = "failed"
                /\ err' = Raise("_loadManifest", "FileNotFoundError")
                /\ UNCHANGED <<manifest, repositories, config, layers>>
           ELSE IF "repositories" \notin files.has
           THEN /\ pc' = "failed"
                /\ err' = Raise("_loadManifest", "FileNotFoundError")
                /\ manifest' = files.manifest
                /\ UNCHANGED <<repositories, config, layers>>
           ELSE IF Len(files.manifest) = 0
           THEN \* self._manifest[0] on an empty list
                /\ pc' = "failed"
                /\ err' = Raise("_loadManifest", "IndexError")
                /\ manifest' = files.manifest
                /\ repositories' = files.repositories
                /\ UNCHANGED <<config, layers>>
           ELSE IF \/ "config" \notin files.has
                   \/ files.manifest[1].Config \notin DOMAIN files.configs
           THEN /\ pc' = "failed"
                /\ err' = Raise("_loadManifest", "FileNotFoundError")
                /\ manifest' = files.manifest
                /\ repositories' = files.repositories
                /\ UNCHANGED <<config, layers>>
           ELSE /\ manifest' = files.manifest
                /\ repositories' = files.repositories
                /\ config' = files.configs[files.manifest[1].Config]
                /\ layers' = [i \in 1..Len(files.manifest[1].Layers) |->
                                 Layer(RelPath("orig", files.manifest[1].Layers[i]))]
                /\ pc' = "manifest-loaded"
                /\ err' = err
    /\ UNCHANGED <<srcTar, srcDir, tmpDir, dstDir, pool, dstTar, tarLog, unpackedLayers>>

-----------------------------------------------------------------------------
(* Layer.unpack and Image._unpackLayers *)

\* what tar -xf may do: exit 0 with the whole archive extracted, or exit
\* non-zero leaving the entries down to some depth
TarOutcomes == {[code |-> 0, depth |-> 0]} \cup {[code |-> 2, depth |-> d] : d \in 0..1}

Extracted(tree, outcome) ==
    IF outcome.code = 0 THEN tree ELSE Truncate(tree, outcome.depth)

\* Layer.unpack(dst) on the temp directory tmp (id -> unpacked layer);
\* st is [tmp, unpacked, log, raised]
LayerUnpack(st, layer, outcome) ==
    IF layer.id \in DOMAIN st.tmp
    THEN \* os.makedirs(path) raises FileExistsError
         [st EXCEPT !.raised = TRUE]
    ELSE LET path == <<"temp", layer.id, "layer">>
             tree == Extracted(srcDir.files.layers[layer.id].tar.content.tree, outcome)
         IN  [tmp |-> st.tmp @@ (layer.id :> [layer |-> tree, metadata |-> <<>>]),
              unpacked |-> Append(st.unpacked, UnpackedLayer(path)),
              log |-> Append(st.log, [op |-> "x", archive |-> layer.src,
                                      dir |-> path, code |-> outcome.code]),
              raised |-> FALSE]

RECURSIVE UnpackFrom(_, _, _)
\* for layer in self._layers: ... layer.unpack(self._tmp())
UnpackFrom(st, i, outcomes) ==
    IF i > Len(layers) \/ st.raised THEN st
    ELSE UnpackFrom(LayerUnpack(st, layers[i], outcomes[i]), i + 1, outcomes)

UnpackLayers ==
    /\ pc = "manifest-loaded"
    /\ \E outcomes \in [1..Len(layers) -> TarOutcomes] :
          LET m == Mkdir(tmpDir, FALSE, <<>>)
              st == UnpackFrom([tmp |-> m.dir.files, unpacked |-> <<>>,
                                log |-> tarLog, raised |-> m.raised], 1, outcomes)
          IN  /\ tmpDir' = [kind |-> m.dir.kind, files |-> st.tmp]
              /\ unpackedLayers' = st.unpacked
              /\ tarLog' = st.log
              /\ IF st.raised
                 THEN /\ pc' = "failed"
                      /\ err' = Raise("_unpackLayers", "FileExistsError")
                 ELSE /\ pc' = "layers-unpacked"
                      /\ err' = err
    /\ UNCHANGED <<srcTar, srcDir, dstDir, pool, dstTar, manifest, repositories,
                   config, layers>>

-----------------------------------------------------------------------------
(* UnpackedLayer.convert, UnpackedLayer.pack and Image._assembleLayers *)

PrependDiffId(ids, checksum) == <<checksum>> \o ids

\* self._config['rootfs']['diff_ids'].append(checksum)
AppendDiffId(ids, checksum) == Append(ids, checksum)

\* one turn of the loop of _assembleLayers;
\* st is [tmp, blobs, dst, ids, log]
AssembleLayer(st, layer) ==
    LET tree == st.tmp[layer.id].layer
        packedLayer == Layer(<<"lazy", layer.id, "layer.tar">>)
        archive == Pack(tree)
        checksum == Sha256Prefix \o sha256sum(archive)
        sidecar == srcDir.files.layers[layer.id]
    IN  [tmp |-> [st.tmp EXCEPT ![layer.id].metadata = ConvertDoc(tree)],
         blobs |-> ConvertPool(st.blobs, tree),
         dst |-> [st.dst EXCEPT !.layers =
                     @ @@ (packedLayer.id :> [tar |-> archive, VERSION |-> sidecar.VERSION,
                                              json |-> sidecar.json])],
         ids |-> AppendDiffId(st.ids, checksum),
         log |-> Append(st.log, [op |-> "c", archive |-> packedLayer.src,
                                 dir |-> layer.src, code |-> 0])]

RECURSIVE AssembleFrom(_, _)
\* for layer in self._unpackedLayers: ...
AssembleFrom(st, i) ==
    IF i > Len(unpackedLayers) THEN st
    ELSE AssembleFrom(AssembleLayer(st, unpackedLayers[i]), i + 1)

\* self._config['rootfs']['diff_ids'] = []
ResetDiffIds(cfg) == [cfg EXCEPT !.rootfs.diff_ids = <<>>]

AssembleLayers ==
    /\ pc = "layers-unpacked"
    /\ LET d == Mkdir(dstDir, FALSE, EmptyDst)
           p == Mkdir(pool, TRUE, <<>>)
           st == AssembleFrom([tmp |-> tmpDir.files, blobs |-> p.dir.files,
                               dst |-> d.dir.files, ids |-> ResetDiffIds(config).rootfs.diff_ids,
                               log |-> tarLog], 1)
       IN  IF d.raised \/ p.raised
           THEN /\ pc' = "failed"
                /\ err' = Raise("_assembleLayers", "NotADirectoryError")
                /\ UNCHANGED <<tmpDir, dstDir, pool, config, tarLog>>
           ELSE /\ tmpDir' = [tmpDir EXCEPT !.files = st.tmp]
                /\ dstDir' = [kind |-> "dir", files |-> st.dst]
                /\ pool' = [kind |-> "dir", files |-> st.blobs]
                /\ config' = [config EXCEPT !.rootfs.diff_ids = st.ids]
                /\ tarLog' = st.log
                /\ pc' = "layers-converted-and-repacked"
                /\ err' = err
    /\ UNCHANGED <<srcTar, srcDir, dstTar, manifest, repositories, layers, unpackedLayers>>

-----------------------------------------------------------------------------
(* Image._writeConfigs *)

\* hashlib.sha256(json.dumps(self._config, ...).encode('ascii')).hexdigest()
ConfigHash(cfg) == Sha256Hex(JsonDumps(cfg))

\* the config written like the other documents, with a newline after it
ConfigBytesNewline(cfg) == JsonDumps(cfg) \o Newline

\* json.dump(self._config, fp, separators=jsonSep)
ConfigBytes(cfg) == JsonDumps(cfg)

\* newver = ver + '-lazy'
NewVersion(ver) == ver \o LazySuffix

\* the move without its del
MoveVersionKeep(versions, ver, newver) ==
    [v \in DOMAIN versions \cup {newver} |-> IF v = newver THEN versions[ver] ELSE versions[v]]

\* self._repositories[name][newver] = self._repositories[name][ver]
\* del self._repositories[name][ver]
MoveVersion(versions, ver, newver) ==
    LET added == [v \in DOMAIN versions \cup {newver} |->
                     IF v = newver THEN versions[ver] ELSE versions[v]]
    IN  [v \in DOMAIN added \ {ver} |-> added[v]]

\* one turn of the loop over RepoTags; st is [repos, tags, raised]
RewriteTag(st, tag) ==
    LET fields == Split(tag)
    IN  IF Len(fields) # 2
        THEN \* name, ver = tag.split(':') does not unpack
             [st EXCEPT !.raised = "ValueError"]
        ELSE LET name == fields[1]
                 ver == fields[2]
                 newver == NewVersion(ver)
             IN  IF name \notin DOMAIN st.repos \/ ver \notin DOMAIN st.repos[name]
                 THEN [st EXCEPT !.raised = "KeyError"]
                 ELSE [repos |-> [st.repos EXCEPT ![name] = MoveVersion(@, ver, newver)],
                       tags |-> Append(st.tags, Join(name, newver)),
                       raised |-> "none"]

RECURSIVE RewriteFrom(_, _, _)
RewriteFrom(st, tags, i) ==
    IF i > Len(tags) \/ st.raised # "none" THEN st
    ELSE RewriteFrom(RewriteTag(st, tags[i]), tags, i + 1)

WriteConfigs ==
    /\ pc = "layers-converted-and-repacked"
    /\ LET configName == <<ConfigHash(config), ".json">>
           withConfig == [dstDir.files EXCEPT !.configs = @ @@ (configName :> ConfigBytes(config))]
           st == RewriteFrom([repos |-> repositories, tags |-> <<>>, raised |-> "none"],
                             manifest[1].RepoTags, 1)
           newManifest == [manifest EXCEPT ![1].Config = configName, ![1].RepoTags = st.tags]
       IN  /\ repositories' = st.repos
           /\ IF st.raised # "none"
              THEN /\ pc' = "failed"
                   /\ err' = Raise("_writeConfigs", st.raised)
                   /\ manifest' = [manifest EXCEPT ![1].Config = configName]
                   /\ dstDir' = [dstDir EXCEPT !.files = withConfig]
              ELSE /\ pc' = "configs-rewritten"
                   /\ err' = err
                   /\ manifest' = newManifest
                   /\ dstDir' = [dstDir EXCEPT !.files =
                         [withConfig EXCEPT
                             !.has = @ \cup {"repositories", "manifest.json"},
                             !.repositories = JsonDumps(st.repos) \o Newline,
                             !.manifest = JsonDumps(newManifest) \o Newline]]
    /\ UNCHANGED <<srcTar, srcDir, tmpDir, pool, dstTar, tarLog, config, layers,
                   unpackedLayers>>

-----------------------------------------------------------------------------
(* Image._assembleTarget *)

AssembleTarget ==
    /\ pc = "configs-rewritten"
    /\ dstTar' = [exists |-> TRUE, content |-> dstDir.files]
    /\ tarLog' = Append(tarLog, [op |-> "c", archive |-> <<"dstTar">>,
                                 dir |-> <<"lazy">>, code |-> 0])
    /\ pc' = "target-assembled"
    /\ UNCHANGED <<err, srcTar, srcDir, tmpDir, dstDir, pool, manifest, repositories,
                   config, layers, unpackedLayers>>

-----------------------------------------------------------------------------
(* Image.convert *)

Next ==
    \/ Untar
    \/ LoadManifest
    \/ UnpackLayers
    \/ AssembleLayers
    \/ WriteConfigs
    \/ AssembleTarget

Spec == Init /\ [][Next]_vars

-----------------------------------------------------------------------------
(* Properties *)

OrigEntry == srcDir.files.manifest[1]
OrigTags == OrigEntry.RepoTags
OrigIndex == srcDir.files.repositories

AfterAssemble ==
    \/ pc \in {"layers-converted-and-repacked", "configs-rewritten", "target-assembled"}
    \/ err.step = "_writeConfigs"

RewriteDone == pc \in {"configs-rewritten", "target-assembled"}

WriteConfigsRan == RewriteDone \/ err.step = "_writeConfigs"

\* the digest recorded for an archive of the destination
DiffIdOf(id) == Sha256Prefix \o <<Sha256Hex(dstDir.files.layers[id].tar.content)>>

\* C1: after the layers are assembled, diff_ids has one entry per layer of
\* the manifest, and entry i is "sha256:" followed by the digest of the
\* repacked archive of the layer at Layers[i], which packs that layer's
\* unpacked tree; nothing of the source config's diff_ids is kept.
C1_DiffIdsFollowLayers ==
    AfterAssemble =>
        LET L == OrigEntry.Layers
            ids == config.rootfs.diff_ids
        IN  /\ Len(ids) = Len(L)
            /\ \A i \in 1..Len(L) :
                  LET id == L[i][Len(L[i]) - 1]
                  IN  /\ id \in DOMAIN dstDir.files.layers
                      /\ ids[i] = DiffIdOf(id)
                      /\ dstDir.files.layers[id].tar.content.tree = tmpDir.files[id].layer

C1_Witness ==
    /\ AfterAssemble
    /\ Len(OrigEntry.Layers) = 2
    /\ config.rootfs.diff_ids[1] # config.rootfs.diff_ids[2]
    /\ Len(srcDir.files.configs[OrigEntry.Config].rootfs.diff_ids) = 2
    /\ srcDir.files.configs[OrigEntry.Config].rootfs.diff_ids # config.rootfs.diff_ids

\* the position of the first ':' of a tag, 0 when it has none
FirstColon(tag) ==
    IF \E i \in 1..Len(tag) : <<tag[i]>> = Colon
    THEN CHOOSE i \in 1..Len(tag) :
            /\ <<tag[i]>> = Colon
            /\ \A j \in 1..(i - 1) : <<tag[j]>> # Colon
    ELSE 0

HasColon(tag) == FirstColon(tag) # 0
NameOf(tag) == SubSeq(tag, 1, FirstColon(tag) - 1)
VersionOf(tag) == SubSeq(tag, FirstColon(tag) + 1, Len(tag))
LazyVersionOf(tag) == VersionOf(tag) \o LazySuffix

\* tag i reads name:version-lazy in the rewritten RepoTags
TagRenamed(i) ==
    manifest[1].RepoTags[i] = NameOf(OrigTags[i]) \o Colon \o LazyVersionOf(OrigTags[i])

\* the index entry of tag i was moved from version to version-lazy
IndexMoved(i) ==
    LET name == NameOf(OrigTags[i])
        ver == VersionOf(OrigTags[i])
    IN  /\ name \in DOMAIN repositories
        /\ LazyVersionOf(OrigTags[i]) \in DOMAIN repositories[name]
        /\ repositories[name][LazyVersionOf(OrigTags[i])] = OrigIndex[name][ver]
        /\ ver \notin DOMAIN repositories[name]

\* no tag's version-lazy is a key of the index of its name before the rewrite
NoLazyCollision ==
    \A i \in 1..Len(OrigTags) :
        LazyVersionOf(OrigTags[i]) \notin DOMAIN OrigIndex[NameOf(OrigTags[i])]

\* every tag's version is a key of the index of its name before the rewrite
AllVersionsIndexed ==
    \A i \in 1..Len(OrigTags) :
        /\ HasColon(OrigTags[i])
        /\ NameOf(OrigTags[i]) \in DOMAIN OrigIndex
        /\ VersionOf(OrigTags[i]) \in DOMAIN OrigIndex[NameOf(OrigTags[i])]

C3_SplitOnFirstColon ==
    WriteConfigsRan =>
        /\ (\E i \in 1..Len(OrigTags) : ~HasColon(OrigTags[i])) =>
              /\ pc = "failed"
              /\ dstDir.files.has \cap {"repositories", "manifest.json"} = {}
        /\ (\A i \in 1..Len(OrigTags) : HasColon(OrigTags[i])) => err.type # "ValueError"
        /\ RewriteDone => \A i \in 1..Len(OrigTags) : TagRenamed(i)

\* the tree document written for layer id
DocOf(id) == tmpDir.files[id].metadata[1].json

RECURSIVE NodeAt(_, _, _)
\* the node of a tree document at a path
NodeAt(node, path, i) ==
    IF i > Len(path) THEN node ELSE NodeAt(node.dirents[path[i]], path, i + 1)

\* the paths of a tree at which a tree document holds a node
Documented(tree) ==
    {q \in DOMAIN tree : \A k \in 1..(Len(q) - 1) : tree[SubSeq(q, 1, k)].kind = "dir"}

UnpackedIds == {unpackedLayers[i].id : i \in 1..Len(unpackedLayers)}

\* the regular files of the unpacked layers, as (layer id, path) pairs
RegularFiles ==
    UNION {{<<id, q>> : q \in {p \in DOMAIN tmpDir.files[id].layer :
                                  tmpDir.files[id].layer[p].kind = "file"}} :
           id \in UnpackedIds}

ContentOf(f) == tmpDir.files[f[1]].layer[f[2]].data

\* C4: after the layers are converted, every regular file's node carries the
\* digest of its content, so that byte-identical files of the same or of
\* different layers carry the same sha256, every such digest names a blob
\* of the pool, and the pool holds one blob per distinct digest seen, next
\* to the blobs it held before.
C4_OneBlobPerDigest ==
    [][pc = "layers-unpacked" /\ pc' = "layers-converted-and-repacked" =>
        LET before == IF pool.kind = "dir" THEN DOMAIN pool.files ELSE {}
        IN  /\ \A f \in RegularFiles' :
                  /\ NodeAt(DocOf(f[1])', f[2], 1).sha256 = Sha256Hex(ContentOf(f)')
                  /\ Sha256Hex(ContentOf(f)') \in DOMAIN pool'.files
            /\ \A f, g \in RegularFiles' :
                  ContentOf(f)' = ContentOf(g)' =>
                      NodeAt(DocOf(f[1])', f[2], 1).sha256 = NodeAt(DocOf(g[1])', g[2], 1).sha256
            /\ DOMAIN pool'.files = before \cup {Sha256Hex(ContentOf(f)') : f \in RegularFiles'}
            /\ Cardinality(DOMAIN pool'.files \ before)
                  = Cardinality({ContentOf(f)' : f \in RegularFiles'}
                                 \ {c \in {ContentOf(f)' : f \in RegularFiles'} :
                                       Sha256Hex(c) \in before})]_vars

C4_Witness ==
    /\ pc = "layers-converted-and-repacked"
    /\ Len(unpackedLayers) = 2
    /\ tmpDir.files[unpackedLayers[1].id].layer = TreeA
    /\ tmpDir.files[unpackedLayers[2].id].layer = TreeB
    /\ DOMAIN pool.files = {Sha256Hex("hello"), Sha256Hex("world")}

\* C5: converting the layers leaves every blob the pool already held as it
\* was: a file whose digest is already a name of the pool adds no blob and
\* does not rewrite the blob's content.
C5_PoolInsertIdempotent ==
    [][pc = "layers-unpacked" /\ pool.kind = "dir" =>
        LET new == {Sha256Hex(ContentOf(f)) : f \in RegularFiles} \ DOMAIN pool.files
        IN  /\ \A name \in DOMAIN pool.files :
                  /\ name \in DOMAIN pool'.files
                  /\ pool'.files[name] = pool.files[name]
            /\ Cardinality(DOMAIN pool'.files) = Cardinality(DOMAIN pool.files) + Cardinality(new)
            /\ new = {} => pool' = pool]_vars

C5_Witness ==
    /\ pc = "layers-converted-and-repacked"
    /\ pool.files = BadPool
    /\ \E f \in RegularFiles : ContentOf(f) = "hello"

\* C6: after _writeConfigs the destination holds the config document under
\* the name <h>.json where h is the digest of the bytes of that document,
\* the manifest entry's Config is that name, and the document is the
\* serialised config with the new diff_ids, one per repacked layer.
C6_ConfigNamedByItsDigest ==
    WriteConfigsRan =>
        LET name == manifest[1].Config
        IN  /\ name \in DOMAIN dstDir.files.configs
            /\ name = <<Sha256Hex(dstDir.files.configs[name]), ".json">>
            /\ DOMAIN dstDir.files.configs = {name}
            /\ dstDir.files.configs[name] = JsonDumps(config)
            /\ Len(dstDir.files.configs[name]) = 1
            /\ LET ids == dstDir.files.configs[name][1].json.rootfs.diff_ids
               IN  /\ Len(ids) = Len(unpackedLayers)
                   /\ \A i \in 1..Len(ids) : ids[i] = DiffIdOf(unpackedLayers[i].id)
            /\ RewriteDone =>
                  dstDir.files.manifest[1].json[1].Config = name

C6_Witness ==
    /\ pc = "configs-rewritten"
    /\ Len(config.rootfs.diff_ids) = 2
    /\ manifest[1].Config # OrigEntry.Config
    /\ manifest[1].Config \in DOMAIN dstDir.files.configs

\* C7: a manifest array that does not have exactly one entry makes the load
\* step fail, and no later step of the pipeline runs.
C7_LoadNeedsOneEntry ==
    pc # "start" /\ Len(srcDir.files.manifest) # 1 =>
        \/ pc = "extracted"
        \/ pc = "failed" /\ err.step \in {"_untar", "_loadManifest"}

\* the extractions of a layer that exited non-zero
FailedLayerExtractions ==
    {i \in 1..Len(tarLog) : tarLog[i].op = "x" /\ Len(tarLog[i].dir) = 3 /\ tarLog[i].code # 0}

\* C8: when the archive tool exits non-zero on a layer in Layer.unpack, the
\* run aborts: the layers are not taken as unpacked, and no config, manifest
\* or final archive is produced.
C8_UnpackFailureAborts ==
    FailedLayerExtractions # {} =>
        /\ pc = "failed"
        /\ ~dstTar.exists
        /\ "manifest.json" \notin dstDir.files.has

C10_SymlinksAreLinkNodes ==
    pc = "layers-converted-and-repacked" =>
        \A id \in UnpackedIds :
            LET tree == tmpDir.files[id].layer
            IN  \A q \in Documented(tree) :
                    LET node == NodeAt(DocOf(id), q, 1)
                    IN  /\ tree[q].kind = "symlink" =>
                              /\ DOMAIN node = {"mode", "size", "link"}
                              /\ node.link = tree[q].data
                              /\ node.size = tree[q].size
                              /\ node.mode = tree[q].mode
                        /\ tree[q].kind = "dir" => "dirents" \in DOMAIN node
                        /\ tree[q].kind = "file" => "sha256" \in DOMAIN node

====
